---- MODULE Spec2Model ----
(***************************************************************************)
(* Valentine Garden (src/src/main.js).  The file holds two builds of the   *)
(* same program:                                                           *)
(*   "hearts"  lines 1..1466     falling hearts, no rose pop               *)
(*   "pop"     lines 1467..2602  rose pop animation, no falling hearts     *)
(* The model covers boot (init), the frame callback (animate), the         *)
(* pointer-down handler (onPointerDown / onRoseTapped), the seeded random  *)
(* source and the per-frame state it drives.                               *)
(*                                                                         *)
(* Numbers are fixed point: lengths, scales and angles in thousandths      *)
(* (Milli), times in milliseconds, velocities in thousandths per second.   *)
(* A 32-bit word is a pair <<hi, lo>> of 16-bit halves.                    *)
(***************************************************************************)
EXTENDS Integers, Sequences, FiniteSets, TLC

\* ---------------------------------------------------------------- bounds
\* How many seeds Init draws CONFIG.seed from (the configured one first).
NumSeeds == 2
\* How many field flowers are built (CONFIG.flowerCount is 4500..10000).
FlowerCount == 2
\* How many hearts are built (CONFIG.heartCount is 200..400).
HeartCount == 2
\* How many times the page is loaded, and how many hidden states Math.random()
\* can start from.
NumLoads == 2
NumEntropies == 3
\* The last index (0-based) of the field instances probed one at a time.
MaxInstance == 40
\* How many draws the probed generator states lie from the seed.
MaxDraws == 30
\* How many times the clock advances in one behaviour (it goes on advancing
\* under a pop that has not yet run its duration).
MaxTicks == 2

\* the largest small modulus mod(n, m) is tried with
MaxModulus == 7

\* the most teeth a leaflet is tried with
MaxTeeth == 8

\* how far, in thousandths, an edit moves the stem curve along x or z
MaxShift == 20

\* the largest flowerCount the field is built with on its own
MaxFieldSize == 3

\* the most vertices a part of the archetype flower is tried with
MaxPartVertices == 5

\* ------------------------------------------------------------------ state
VARIABLES
  build,            \* which of the two builds of main.js runs
  webgl,            \* what hasWebGL() returns
  seed,             \* CONFIG.seed
  pc,               \* boot, fallback, idle, or the step of animate() in progress
  now,              \* performance.now(), ms
  ticks,            \* how many times the clock has advanced
  clock,            \* the THREE.Clock, Null before init
  rng,              \* the state a of the mulberry32 closure
  frame,            \* animate()'s locals delta and t, ms
  flowerField,      \* Null, or the instanced field and its wind uniform
  rose,             \* Null, or the rose group's transform and popAnim
  fallingHearts,    \* Null, or the hearts' closure state
  lastTapTime,      \* let lastTapTime = -Infinity
  triggered,        \* let triggered = false
  ui,               \* calls made on the overlay, the audio and the rose pop
  pointerListener,  \* the pointerdown listener is registered
  rafPending,       \* a requestAnimationFrame(animate) callback is pending
  lastEvent,        \* the last pointer-down delivered, when, and how far its handler got
  frameLog,         \* the steps the current (or last) frame has run, in order
  session,          \* how many page loads the builders have been run for
  entropy,          \* the hidden state of Math.random() in the current page load
  built,            \* what the builders produced, per page load
  probe             \* the last builder function applied on its own, and its result

\* ------------------------------------------------------- fixed-point base
Milli == 1000
Half == 65536
Byte == 256
Pi == 3142
TwoPi == 2 * Pi

\* ----------------------------------------------------- 32-bit arithmetic
\* bit i of x ^ y and of x | y, in place
XorBit(x, y, i) == ((((x \div (2 ^ i)) % 2) + ((y \div (2 ^ i)) % 2)) % 2) * (2 ^ i)
OrBit(x, y, i) ==
  (IF (x \div (2 ^ i)) % 2 = 1 \/ (y \div (2 ^ i)) % 2 = 1 THEN 1 ELSE 0) * (2 ^ i)

\* four bits from bit i up
Xor4(x, y, i) == XorBit(x, y, i) + XorBit(x, y, i + 1) + XorBit(x, y, i + 2) + XorBit(x, y, i + 3)
Or4(x, y, i) == OrBit(x, y, i) + OrBit(x, y, i + 1) + OrBit(x, y, i + 2) + OrBit(x, y, i + 3)

\* x ^ y and x | y on 16-bit halves
Xor16(x, y) == Xor4(x, y, 0) + Xor4(x, y, 4) + Xor4(x, y, 8) + Xor4(x, y, 12)
Or16(x, y) == Or4(x, y, 0) + Or4(x, y, 4) + Or4(x, y, 8) + Or4(x, y, 12)

\* a ^ b
Xor32(a, b) == <<Xor16(a[1], b[1]), Xor16(a[2], b[2])>>

\* small | a, for a constant below 2^16
OrLow(small, a) == <<a[1], Or16(small, a[2])>>

\* (a + b) | 0 : addition modulo 2^32
Add32(a, b) ==
  LET lo == a[2] + b[2]
  IN  <<(a[1] + b[1] + (lo \div Half)) % Half, lo % Half>>

\* a >>> n, for 0 < n < 16
Shr32(a, n) ==
  LET p == 2 ^ n
  IN  <<a[1] \div p, (a[2] \div p) + (a[1] % p) * (Half \div p)>>

\* the full product of two 16-bit halves, as a 32-bit word
Mul16(x, y) ==
  LET xh == x \div Byte
      xl == x % Byte
      top == xh * y
      low == xl * y + (top % Byte) * Byte
  IN  <<((top \div Byte) + (low \div Half)) % Half, low % Half>>

\* Math.imul(a, b): the low 32 bits of the product
Imul(a, b) ==
  LET ll == Mul16(a[2], b[2])
      cross == (Mul16(a[1], b[2])[2] + Mul16(a[2], b[1])[2]) % Half
  IN  <<(ll[1] + cross) % Half, ll[2]>>

\* seed >>> 0 for a seed below 2^31
Word(n) == <<n \div Half, n % Half>>

\* ------------------------------------------------------- seeded random
\* 0x6D2B79F5 as two halves
MulberryIncHi == 27947
MulberryIncLo == 31221

\* the element of a one-element set: { F(v) : v \in {e} } evaluates e once
TheOne(S) == CHOOSE v \in S : TRUE

\* let t = Math.imul(a ^ (a >>> 15), 1 | a)
MulberryT1(a1) ==
  TheOne({ Imul(x1, OrLow(1, a1)) : x1 \in {Xor32(a1, Shr32(a1, 15))} })

\* t = (t + Math.imul(t ^ (t >>> 7), 61 | t)) ^ t
MulberryT2(t1) ==
  TheOne({ TheOne({ Xor32(sum, t1) : sum \in {Add32(t1, Imul(x2, OrLow(61, t1)))} })
           : x2 \in {Xor32(t1, Shr32(t1, 7))} })

\* (t ^ (t >>> 14)) >>> 0
MulberryOut(t2) == Xor32(t2, Shr32(t2, 14))

\* the value returned for the advanced state a1
MulberryValue(a1) ==
  TheOne({ TheOne({ MulberryOut(t2) : t2 \in {MulberryT2(t1)} }) : t1 \in {MulberryT1(a1)} })

\* one call of the closure mulberry32 returns: the advanced state and the
\* 32-bit numerator of the returned float (value / 2^32)
mulberry32(a) ==
  TheOne({ [state |-> a1, value |-> MulberryValue(a1)]
           : a1 \in {Add32(a, <<MulberryIncHi, MulberryIncLo>>)} })

\* floor(v * span / 2^32) for the numerator v, keeping the top 16 bits of v
Scale(v, span) ==
  LET h1 == v[1] \div Byte
      h0 == v[1] % Byte
  IN  (h1 * span + ((h0 * span) \div Byte)) \div Byte

\* rand as it would be with the span taken for max
randNoOffset(v, min, max) == min + Scale(v, max)

\* rand(min, max) = min + rng() * (max - min), on the numerator v
rand(v, min, max) == min + Scale(v, max - min)

\* the index as it would be with Math.round for Math.floor
PickIndexRounded(v, n) == (v[1] * n + ((v[2] * n) \div Half) + (Half \div 2)) \div Half

\* Math.floor(rng() * n), exactly, on the numerator v (n below 2^15)
PickIndex(v, n) == (v[1] * n + ((v[2] * n) \div Half)) \div Half

\* pick(arr) = arr[Math.floor(rng() * arr.length)], 1-based
pick(v, arr) == arr[PickIndex(v, Len(arr)) + 1]

\* the state after k calls: every call adds 0x6D2B79F5 modulo 2^32
Skip(a, k) == Add32(a, Imul(Word(k), <<MulberryIncHi, MulberryIncLo>>))

\* the numerator of the k-th draw (k >= 1) after state a
Draw(a, k) == mulberry32(Skip(a, k - 1)).value

\* the numerator of the k-th call of Math.random() in a page load whose
\* engine started from the hidden state e (the engine's generator is not the
\* program's: any function of e and k stands for it)
MathRandom(e, k) == mulberry32(<<e, k>>).value

\* the draws as they would be taken from Math.random() instead of rng()
DrawsFromMathRandom(a, n) == [k \in 1 .. n |-> MathRandom(entropy, k)]

\* the numerators of the next n draws after state a
Draws(a, n) == [k \in 1 .. n |-> Draw(a, k)]

\* ------------------------------------------------------------ numerics
Min(a, b) == IF a < b THEN a ELSE b

\* a * b for two fixed-point numbers
MulMilli(a, b) == (a * b) \div Milli

\* Math.sin on [0, pi], to three decimals (Bhaskara's rational form,
\* 16 x (pi - x) / (5 pi^2 - 4 x (pi - x)), absolute error below 0.002)
SinArc(a) ==
  LET q == a * (Pi - a)
  IN  (16 * Milli * (q \div 100)) \div ((5 * Pi * Pi - 4 * q) \div 100)

\* Math.sin / Math.cos of an angle in thousandths of a radian
Sin(a) ==
  LET m == a % TwoPi
  IN  IF m <= Pi THEN SinArc(m) ELSE 0 - SinArc(m - Pi)

Cos(a) == Sin(a + (Pi \div 2))

\* lerp(a, b, t) = a + (b - a) * t
lerp(a, b, t) == a + MulMilli(b - a, t)

\* t^3 and t^2 in fixed point
Cube(t) == (t * t * t) \div (Milli * Milli)
Square(t) == (t * t) \div Milli

\* easeOutCubic(t) = 1 - (1 - t)^3
easeOutCubic(t) == Milli - Cube(Milli - t)

\* easeOutBack(t) = 1 + c3 (t - 1)^3 + c1 (t - 1)^2, c1 = 1.70158, c3 = c1 + 1
BackC1 == 1702
easeOutBack(t) ==
  Milli + MulMilli(BackC1 + Milli, Cube(t - Milli)) + MulMilli(BackC1, Square(t - Milli))

\* -------------------------------------------------------------- CONFIG
ConfigSeed == 20260214
tapCooldownMs == 900
clearRadius == 12000
FieldRadiusHearts == 120000
FieldRadiusPop == 55000
RoseHeightHearts == 5000
RoseHeightPop == 3500
heartFallSpeedMin == -500
heartFallSpeedMax == -1200
heartStartYMin == 10000
heartStartYMax == 20000
heartScale == 400
\* createRose: baseHeight
RoseBaseHeight == 950
\* pop(): duration; animateRose: upPhase, peak
PopDurationMs == 520
PopUpPhase == 650
PopPeak == 1140
\* let lastTapTime = -Infinity
NegInfinity == -1000000000
\* the petal draws of buildSingleFlowerGeometry (layers of 6 and 8), hearts build
PetalDraws == 14

Builds == {"hearts", "pop"}
fieldRadius(b) == IF b = "hearts" THEN FieldRadiusHearts ELSE FieldRadiusPop
roseHeight(b) == IF b = "hearts" THEN RoseHeightHearts ELSE RoseHeightPop

\* the values CONFIG.seed ranges over in the model
Seeds == {ConfigSeed + k : k \in 0 .. (NumSeeds - 1)}

\* how far performance.now() advances in one step (ms): inside the pop,
\* the cooldown exactly, and a hidden-tab gap long enough for hearts to land
TickSteps == {PopDurationMs \div 2, tapCooldownMs, 2 * heartStartYMin}

\* a reference that is null / not yet assigned
Null == [null |-> TRUE]

\* ---------------------------------------------------------- flower field
\* palette.length in createFlowerField
PaletteSize == 10
Palette == [k \in 1 .. PaletteSize |-> k]

\* draws one instance consumes
InstanceDraws == 15

\* one pass of the createFlowerField loop, on its 15 draws d in call order
FlowerFromDraws(d, b) ==
  LET r == clearRadius + Scale(d[1], fieldRadius(b) - clearRadius)
      ang == rand(d[2], 0, TwoPi)
      px == MulMilli(Cos(ang), r) + rand(d[3], -2500, 2500)
      pz == MulMilli(Sin(ang), r) + rand(d[4], -2500, 2500)
      h == rand(d[5], 600, 1600)
      sc == rand(d[6], 650, 1400)
      tiltX == rand(d[7], -180, 180)
      tiltZ == rand(d[8], -180, 180)
      yaw == rand(d[9], 0, TwoPi)
  IN  [matrix |-> [p |-> <<px, 0, pz>>,
                   q |-> <<tiltX, yaw, tiltZ>>,
                   s |-> <<sc, MulMilli(sc, h), sc>>],
       color |-> [base |-> pick(d[10], Palette),
                  hsl |-> <<rand(d[11], -20, 20), rand(d[12], -30, 30), rand(d[13], -40, 40)>>],
       aSway |-> rand(d[14], 300, 1100),
       aPhase |-> rand(d[15], 0, TwoPi)]

FlowerInstance(a, b) ==
  TheOne({ FlowerFromDraws(d, b) : d \in {Draws(a, InstanceDraws)} })

\* createFlowerField: the archetype's petal draws (hearts build), then one
\* instance per index (its matrix, color, aSway and aPhase entries); the
\* shader is compiled at the first render
createFlowerField(a, b) ==
  LET a0 == IF b = "hearts" THEN Skip(a, PetalDraws) ELSE a
  IN  [rng |-> Skip(a0, InstanceDraws * FlowerCount),
       field |-> [instances |-> [i \in 1 .. FlowerCount |->
                                   FlowerInstance(Skip(a0, InstanceDraws * (i - 1)), b)],
                  shader |-> FALSE,
                  uTime |-> 0]]

\* updateWind as it would be with the sway advanced on the CPU, per instance
updateWindOnCpu(field, t) ==
  [field EXCEPT !.uTime = t,
                !.instances = [i \in DOMAIN @ |-> [@[i] EXCEPT !.aPhase = @ + t]]]

\* buildSingleFlowerGeometry: the angle of each petal of the archetype, two
\* layers of 6 and 8 (the first build adds rng() * 0.1 to each)
PetalAngle(k, v, b) ==
  LET count == IF k <= 6 THEN 6 ELSE 8
      i == IF k <= 6 THEN k - 1 ELSE k - 7
  IN  ((i * TwoPi) \div count) + (IF b = "hearts" THEN Scale(v, 100) ELSE 0)

buildSingleFlowerGeometry(a, b) ==
  TheOne({ [k \in 1 .. PetalDraws |-> PetalAngle(k, d[k], b)] : d \in {Draws(a, PetalDraws)} })

\* flowerField.updateWind(t): writes the uniform once the shader exists
updateWind(field, t) ==
  IF field.shader THEN [field EXCEPT !.uTime = t] ELSE field

\* material.onBeforeCompile, run by the first render of the field
applyWindShader(field) ==
  IF field.shader THEN field ELSE [field EXCEPT !.shader = TRUE, !.uTime = 0]

\* ------------------------------------------------------------------ rose
\* the parts of the rose group, and what else a pointer ray can cross
RoseParts == {"RoseStem", "RoseLeaves", "RosePetals", "RoseCollider"}
SceneObjects == RoseParts \cup {"FlowerField", "Ground"}

\* createRose: the group's base transform, the collider and (pop build) popAnim
createRose(b) ==
  LET base == (roseHeight(b) * Milli) \div RoseBaseHeight
  IN  [baseScale |-> base,
       rotation |-> <<0, 0>>,
       scale |-> <<base, base, base>>,
       colliderMesh |-> "RoseCollider",
       popAnim |-> Null]

\* pop(): popAnim = { start: performance.now(), duration: 520 }
pop(r, nowv) == [r EXCEPT !.popAnim = [start |-> nowv, duration |-> PopDurationMs]]

\* u = Math.min(1, (now - popAnim.start) / popAnim.duration)
PopProgress(anim, nowv) == Min(Milli, ((nowv - anim.start) * Milli) \div anim.duration)

\* the pop factor k of animateRose for progress u
PopFactor(u) ==
  IF u < PopUpPhase
  THEN lerp(Milli, PopPeak, easeOutBack((u * Milli) \div PopUpPhase))
  ELSE lerp(PopPeak, Milli, easeOutCubic(((u - PopUpPhase) * Milli) \div (Milli - PopUpPhase)))

\* the completion test as it would be with a strict comparison
PopFinishedStrict(u) == u > Milli

\* if (u >= 1) popAnim = null
PopFinished(u) == u >= Milli

\* the sway and breathing part of animateRose(t), t in ms
BreathScale(r, t) ==
  LET breath == Milli + MulMilli(Sin((t * 110) \div 100), 15)
      breathY == Milli + MulMilli(Sin(((t * 110) \div 100) + 1200), 12)
  IN  <<MulMilli(r.baseScale, breath), MulMilli(r.baseScale, breathY), MulMilli(r.baseScale, breath)>>

\* animateRose as it would be with the pop factor multiplied into the scale
\* the last frame left, the breathing set only while no pop plays
animateRoseAccumulating(r, t, nowv) ==
  LET rot == <<MulMilli(Sin((t * 85) \div 100), 55), MulMilli(Cos((t * 65) \div 100), 28)>>
  IN  IF r.popAnim = Null
      THEN [r EXCEPT !.rotation = rot,
                     !.scale = IF r.scale[1] > MulMilli(r.baseScale, 1015)
                                 THEN r.scale ELSE BreathScale(r, t)]
      ELSE LET u == PopProgress(r.popAnim, nowv)
               k == PopFactor(u)
           IN  [r EXCEPT !.rotation = rot,
                         !.scale = <<MulMilli(@[1], k), MulMilli(@[2], k), MulMilli(@[3], k)>>,
                         !.popAnim = IF PopFinished(u) THEN Null ELSE @]

\* rose.animateRose(t): rotation and scale are set from the base values; a
\* playing pop multiplies the scale by k and is cleared once u reaches 1
animateRose(r, t, nowv) ==
  LET rot == <<MulMilli(Sin((t * 85) \div 100), 55), MulMilli(Cos((t * 65) \div 100), 28)>>
      sc == BreathScale(r, t)
  IN  IF r.popAnim = Null
      THEN [r EXCEPT !.rotation = rot, !.scale = sc]
      ELSE LET u == PopProgress(r.popAnim, nowv)
               k == PopFactor(u)
           IN  [r EXCEPT !.rotation = rot,
                         !.scale = <<MulMilli(sc[1], k), MulMilli(sc[2], k), MulMilli(sc[3], k)>>,
                         !.popAnim = IF PopFinished(u) THEN Null ELSE @]

\* ------------------------------------------------------------ rose stem
\* the interpolation with its two ends exchanged
MathUtilsLerpSwapped(x, y, t) == (t * x + (Milli - t) * y) \div Milli

\* THREE.MathUtils.lerp(x, y, t) = (1 - t) * x + t * y, t in thousandths
MathUtilsLerp(x, y, t) == ((Milli - t) * x + t * y) \div Milli

\* createRealRoseStemMesh: rBase and rTop, in millionths
rBase == 52000
rTop == 28000

\* mesh.userData.radiusAt = (t) => THREE.MathUtils.lerp(rBase, rTop, t)
radiusAt(t) == MathUtilsLerp(rBase, rTop, t)

\* addThornsToStem (first build): thornCount; createRose (second build): 5
ThornCountHearts == 9
ThornCountPop == 5

\* thorn i of addThornsToStem, 0-based: where along the stem, at which angle
\* around it and how far out it sits, and the two small rotations taken from
\* Math.random()
Thorn(i, e) ==
  LET u == (i * Milli) \div (ThornCountHearts - 1)
      t == MathUtilsLerp(180, 740, u)
  IN  [t |-> t,
       angle |-> ((u * TwoPi * 18) \div (10 * Milli)) + i * 450,
       r |-> (radiusAt(t) * 98) \div 100,
       rotateZ |-> Scale(MathRandom(e, 2 * i + 1), 250) - 125,
       rotateY |-> Scale(MathRandom(e, 2 * i + 2), 180) - 90]

\* thorn i of the second build's createRose, 0-based: angle, height, radius
ThornPop(i) ==
  [t |-> 150 + i * 80,
   angle |-> ((i * TwoPi) \div ThornCountPop) + i * 500,
   r |-> 38000,
   rotateZ |-> 0,
   rotateY |-> 0]

\* the thorns of the rose, in a page load whose Math.random() started from e
addThornsToStem(e, b) ==
  IF b = "hearts"
  THEN [k \in 1 .. ThornCountHearts |-> Thorn(k - 1, e)]
  ELSE [k \in 1 .. ThornCountPop |-> ThornPop(k - 1)]

\* ---------------------------------------------------------------- hearts
\* the spawn as it would be with the velocity drawn between rest and the
\* fastest fall
HeartSpawnFromRest(vr, va, vy, vv, b) ==
  LET r == rand(vr, 0, (fieldRadius(b) * 12) \div 10)
      ang == rand(va, 0, TwoPi)
  IN  [pos |-> <<MulMilli(Cos(ang), r), rand(vy, heartStartYMin, heartStartYMax), MulMilli(Sin(ang), r)>>,
       velocity |-> rand(vv, 0, heartFallSpeedMax),
       radius |-> r]

\* the aerial position and fall velocity drawn at a (re)spawn: r, a, y, v
HeartSpawn(vr, va, vy, vv, b) ==
  LET r == rand(vr, 0, (fieldRadius(b) * 12) \div 10)
      ang == rand(va, 0, TwoPi)
  IN  [pos |-> <<MulMilli(Cos(ang), r), rand(vy, heartStartYMin, heartStartYMax), MulMilli(Sin(ang), r)>>,
       velocity |-> rand(vv, heartFallSpeedMin, heartFallSpeedMax),
       radius |-> r]

\* draws one heart consumes at creation: r, a, y, three Euler angles, scale,
\* velocity, phase
HeartDraws == 9

\* one pass of the createFallingHearts loop, on its 9 draws d in call order
HeartFromDraws(d, b) ==
  TheOne({ [pos |-> sp.pos,
            velocity |-> sp.velocity,
            phase |-> rand(d[9], 0, TwoPi),
            matrix |-> [p |-> sp.pos,
                        q |-> <<rand(d[4], 0, Pi), rand(d[5], 0, TwoPi), rand(d[6], 0, Pi)>>,
                        s |-> MulMilli(heartScale, rand(d[7], 500, 1500))],
            spawnRadius |-> sp.radius]
           : sp \in {HeartSpawn(d[1], d[2], d[3], d[8], b)} })

HeartInstance(a, b) ==
  TheOne({ HeartFromDraws(d, b) : d \in {Draws(a, HeartDraws)} })

\* createFallingHearts: positions, velocities, phases and the instance matrix
\* per heart; tmpQ and tmpS are the closure's scratch quaternion and scale,
\* left holding what the last pass of the loop wrote
createFallingHearts(a, b) ==
  TheOne({ [rng |-> Skip(a, HeartDraws * HeartCount),
            hearts |-> [heart |-> inst,
                        created |-> [i \in 1 .. HeartCount |->
                                       [q |-> inst[i].matrix.q, s |-> inst[i].matrix.s]],
                        tmpQ |-> inst[HeartCount].matrix.q,
                        tmpS |-> inst[HeartCount].matrix.s,
                        respawned |-> {}]]
           : inst \in {[i \in 1 .. HeartCount |-> HeartInstance(Skip(a, HeartDraws * (i - 1)), b)]} })

\* the ground test as it would be with the spawn ceiling for a floor
GroundedDeep(y) == y < -heartStartYMax

\* if (pos.y < 0): the heart has crossed the ground plane
Grounded(y) == y < 0

\* draws one respawn consumes: r, a, y, velocity
RespawnDraws == 4

\* the heart after integrating its fall and sway over delta
HeartMoved(e, delta, t) ==
  LET swayX == MulMilli(Sin(t + e.phase), 500)
      swayZ == MulMilli(Cos(t + ((e.phase * 7) \div 10)), 300)
  IN  [e EXCEPT !.pos = <<e.pos[1] + ((swayX * delta) \div Milli),
                          e.pos[2] + ((e.velocity * delta) \div Milli),
                          e.pos[3] + ((swayZ * delta) \div Milli)>>]

\* pos.x, pos.z, pos.y and velocities[i] assigned from a spawn
HeartPlaced(e, sp) ==
  [e EXCEPT !.pos = sp.pos, !.velocity = sp.velocity, !.spawnRadius = sp.radius]

\* the heart respawned from the next four draws after state a
HeartRespawned(e, a, b) ==
  TheOne({ HeartPlaced(e, sp)
           : sp \in {HeartSpawn(Draw(a, 1), Draw(a, 2), Draw(a, 3), Draw(a, 4), b)} })

\* tmpM.compose(pos, tmpQ, tmpS); mesh.setMatrixAt(i, tmpM)
HeartMatrix(e, h) == [e EXCEPT !.matrix = [p |-> e.pos, q |-> h.tmpQ, s |-> h.tmpS]]

\* pass i of the loop of update(delta, t): integrate, sway, respawn below the
\* ground, write the instance matrix from the scratch quaternion and scale
UpdateHeart(h, a, i, delta, t, b) ==
  TheOne({ IF Grounded(m.pos[2])
           THEN [rng |-> Skip(a, RespawnDraws),
                 hearts |-> [h EXCEPT !.heart[i] = HeartMatrix(HeartRespawned(m, a, b), h),
                                      !.respawned = @ \cup {i}]]
           ELSE [rng |-> a,
                 hearts |-> [h EXCEPT !.heart[i] = HeartMatrix(m, h)]]
           : m \in {HeartMoved(h.heart[i], delta, t)} })

RECURSIVE UpdateFrom(_, _, _, _, _, _)
UpdateFrom(h, a, i, delta, t, b) ==
  IF i > HeartCount THEN [rng |-> a, hearts |-> h]
  ELSE TheOne({ UpdateFrom(one.hearts, one.rng, i + 1, delta, t, b)
                : one \in {UpdateHeart(h, a, i, delta, t, b)} })

\* fallingHearts.update(delta, t), delta and t in ms
update(h, a, delta, t, b) == UpdateFrom([h EXCEPT !.respawned = {}], a, 1, delta, t, b)

\* ------------------------------------------------------------- THREE.Clock
\* new THREE.Clock(): autoStart, not yet running
NewClock == [running |-> FALSE, oldTime |-> 0, elapsedTime |-> 0]

\* clock.getDelta(): the first call starts the clock and returns 0
ClockGetDelta(c, nowv) ==
  IF ~c.running
  THEN [clock |-> [running |-> TRUE, oldTime |-> nowv, elapsedTime |-> 0], value |-> 0]
  ELSE [clock |-> [c EXCEPT !.oldTime = nowv, !.elapsedTime = @ + (nowv - c.oldTime)],
        value |-> nowv - c.oldTime]

\* clock.getElapsedTime(): getDelta(), then the accumulated time
ClockGetElapsedTime(c, nowv) ==
  LET d == ClockGetDelta(c, nowv)
  IN  [clock |-> d.clock, value |-> d.clock.elapsedTime]

\* ------------------------------------------------------------ state tuples
vars == <<build, webgl, seed, pc, now, ticks, clock, rng, frame, flowerField, rose,
          fallingHearts, lastTapTime, triggered, ui, pointerListener, rafPending,
          lastEvent, frameLog, session, entropy, built, probe>>

\* the builders run on their own
bench == <<session, entropy, built, probe>>

\* everything the running page holds
page == <<build, webgl, seed, pc, now, ticks, clock, rng, frame, flowerField, rose,
          fallingHearts, lastTapTime, triggered, ui, pointerListener, rafPending,
          lastEvent, frameLog>>

config == <<build, webgl, seed>>
time == <<now, ticks>>
scene == <<clock, rng, frame, flowerField, rose, fallingHearts, frameLog>>
trigger == <<lastTapTime, triggered, ui>>

\* the state of the page when main.js starts to run
Init ==
  /\ build \in Builds
  /\ webgl \in BOOLEAN
  /\ seed \in Seeds
  /\ pc = "boot"
  /\ now = 0
  /\ ticks = 0
  /\ clock = Null
  /\ rng = Word(seed)
  /\ frame = [delta |-> 0, t |-> 0]
  /\ flowerField = Null
  /\ rose = Null
  /\ fallingHearts = Null
  /\ lastTapTime = NegInfinity
  /\ triggered = FALSE
  /\ ui = [fallbackShown |-> 0, hintHidden |-> 0, cardShown |-> 0, chimes |-> 0, pops |-> 0]
  /\ pointerListener = FALSE
  /\ rafPending = FALSE
  /\ lastEvent = [ray |-> {}, time |-> 0, accepted |-> FALSE, cast |-> FALSE]
  /\ frameLog = <<>>
  /\ session = 0
  /\ entropy = 0
  /\ built = <<>>
  /\ probe = Null

\* ------------------------------------------------------------------- boot
\* the capability test as it would be if it never failed
hasWebGLAssumed == TRUE

\* if (!hasWebGL()) { fallbackEl?.classList?.add('show'); return; }
hasWebGL == webgl

\* init(): the fallback, or the whole scene, the listeners and the first
\* call of animate()
init ==
  /\ pc = "boot"
  /\ IF ~hasWebGL
     THEN /\ ui' = [ui EXCEPT !.fallbackShown = @ + 1]
          /\ pc' = "fallback"
          /\ UNCHANGED <<clock, rng, flowerField, rose, fallingHearts, pointerListener>>
     ELSE \E f \in {createFlowerField(rng, build)} :
            \E h \in {IF build = "hearts"
                      THEN createFallingHearts(f.rng, build)
                      ELSE [rng |-> f.rng, hearts |-> Null]} :
              /\ clock' = NewClock
              /\ flowerField' = f.field
              /\ rose' = createRose(build)
              /\ fallingHearts' = h.hearts
              /\ rng' = h.rng
              /\ pointerListener' = TRUE
              /\ pc' = "animate"
              /\ ui' = ui
  /\ UNCHANGED <<bench, config, time, frame, lastTapTime, triggered, rafPending, lastEvent, frameLog>>

\* ------------------------------------------------------------ time passes
\* performance.now() advances between two callbacks (a callback itself runs
\* in no time): MaxTicks times, and for as long as a pop has time left to play
Tick ==
  /\ pc \in {"idle", "fallback"}
  /\ \/ ticks < MaxTicks
     \/ rose # Null /\ rose.popAnim # Null /\ now - rose.popAnim.start < PopDurationMs
  /\ \E d \in TickSteps : now' = now + d
  /\ ticks' = ticks + 1
  /\ UNCHANGED <<bench, config, pc, scene, trigger, pointerListener, rafPending, lastEvent>>

\* ------------------------------------------------------------ the frame
\* the order animate() would have with the wind uniform written after the
\* rose and the hearts
StepAfterEntitiesFirst(p, b) ==
  CASE p = "animate" -> "rose"
    [] p = "rose" -> IF b = "hearts" THEN "hearts" ELSE "wind"
    [] p = "hearts" -> "wind"
    [] p = "wind" -> "render"
    [] OTHER -> "idle"

\* the order of the statements of animate(): the clock is read, updateWind,
\* animateRose, fallingHearts.update (hearts build), controls and render
StepAfter(p, b) ==
  CASE p = "animate" -> "wind"
    [] p = "wind" -> "rose"
    [] p = "rose" -> IF b = "hearts" THEN "hearts" ELSE "render"
    [] p = "hearts" -> "render"
    [] OTHER -> "idle"

\* a frame callback is in progress (between its first statement and its render)
InFrame == pc \in {"animate", "wind", "rose", "hearts", "render"}

\* animate() is entered, from init or from the pending animation-frame
\* callback: it requests the next frame and reads the clock
animateBegin ==
  /\ pc = "animate" \/ (pc = "idle" /\ rafPending)
  /\ rafPending' = TRUE
  /\ \E d \in {IF build = "hearts" THEN ClockGetDelta(clock, now)
                                       ELSE [clock |-> clock, value |-> 0]} :
       \E e \in {ClockGetElapsedTime(d.clock, now)} :
         /\ clock' = e.clock
         /\ frame' = [delta |-> d.value, t |-> e.value]
  /\ frameLog' = <<"time">>
  /\ pc' = StepAfter("animate", build)
  /\ UNCHANGED <<bench, config, time, rng, flowerField, rose, fallingHearts, trigger,
                 pointerListener, lastEvent>>

\* if (CONFIG.enableWind && flowerField) flowerField.updateWind(t)
animateWind ==
  /\ pc = "wind"
  /\ flowerField' = IF flowerField # Null THEN updateWind(flowerField, frame.t) ELSE flowerField
  /\ frameLog' = IF flowerField # Null /\ flowerField.shader
                 THEN Append(frameLog, "uniforms") ELSE frameLog
  /\ pc' = StepAfter("wind", build)
  /\ UNCHANGED <<bench, config, time, clock, rng, frame, rose, fallingHearts, trigger,
                 pointerListener, rafPending, lastEvent>>

\* if (rose) rose.animateRose(t)
animateRoseStep ==
  /\ pc = "rose"
  /\ rose' = IF rose # Null THEN animateRose(rose, frame.t, now) ELSE rose
  /\ frameLog' = Append(frameLog, "rose")
  /\ pc' = StepAfter("rose", build)
  /\ UNCHANGED <<bench, config, time, clock, rng, frame, flowerField, fallingHearts, trigger,
                 pointerListener, rafPending, lastEvent>>

\* if (fallingHearts) fallingHearts.update(delta, t)
animateHearts ==
  /\ pc = "hearts"
  /\ IF fallingHearts # Null
     THEN \E u \in {update(fallingHearts, rng, frame.delta, frame.t, build)} :
            fallingHearts' = u.hearts /\ rng' = u.rng
     ELSE UNCHANGED <<fallingHearts, rng>>
  /\ frameLog' = Append(frameLog, "hearts")
  /\ pc' = StepAfter("hearts", build)
  /\ UNCHANGED <<bench, config, time, clock, frame, flowerField, rose, trigger,
                 pointerListener, rafPending, lastEvent>>

\* controls.update(); renderer.render(scene, camera): the first render
\* compiles the field's material
animateRender ==
  /\ pc = "render"
  /\ flowerField' = IF flowerField # Null THEN applyWindShader(flowerField) ELSE flowerField
  /\ frameLog' = Append(frameLog, "render")
  /\ pc' = StepAfter("render", build)
  /\ UNCHANGED <<bench, config, time, clock, rng, frame, rose, fallingHearts, trigger,
                 pointerListener, rafPending, lastEvent>>

animate == animateBegin \/ animateWind \/ animateRoseStep \/ animateHearts \/ animateRender

\* ------------------------------------------------------------ interaction
\* the rays a pointer-down can cast: the objects the ray crosses
Rays == { {"RosePetals", "RoseLeaves", "FlowerField", "Ground"},
          {"RoseCollider"},
          {"RoseCollider", "RoseStem", "RosePetals", "Ground"} }

\* the hit test as it would be against the whole rose group, recursively
intersectObjectRecursive(object, ray) == ray \cap RoseParts

\* raycaster.intersectObject(object, false): the object itself, no descendants
intersectObject(object, ray) == ray \cap {object}

\* the cooldown test as it would be with the threshold taken in seconds
CooldownActiveSeconds(nowv) == nowv - lastTapTime < tapCooldownMs \div Milli

\* the cooldown test as it would be with half the threshold
CooldownActiveHalf(nowv) == nowv - lastTapTime < tapCooldownMs \div 2

\* if (now - lastTapTime < CONFIG.tapCooldownMs) return;
CooldownActive(nowv) == nowv - lastTapTime < tapCooldownMs

\* a listener that could run in the middle of a frame callback
HandlerMayRunAnytime == TRUE

\* the browser runs a listener to completion, between two callbacks
HandlerMayRun == pc = "idle"

\* onRoseTapped as it would be without its if (triggered) return
onRoseTappedUnguarded ==
  /\ triggered' = TRUE
  /\ ui' = [ui EXCEPT !.hintHidden = @ + 1,
                      !.cardShown = @ + 1,
                      !.pops = IF build = "pop" THEN @ + 1 ELSE @,
                      !.chimes = @ + 1]
  /\ rose' = IF build = "pop" THEN pop(rose, now) ELSE rose

\* onRoseTapped(): the first call triggers and signals the card, the pop
\* (pop build) and the chime
onRoseTapped ==
  IF triggered
  THEN UNCHANGED <<triggered, ui, rose>>
  ELSE /\ triggered' = TRUE
       /\ ui' = [ui EXCEPT !.hintHidden = @ + 1,
                           !.cardShown = @ + 1,
                           !.pops = IF build = "pop" THEN @ + 1 ELSE @,
                           !.chimes = @ + 1]
       /\ rose' = IF build = "pop" THEN pop(rose, now) ELSE rose

\* onPointerDown as it would be with the cooldown restarted only by a
\* pointer-down that hits the collider
onPointerDownCooldownOnHit ==
  /\ pointerListener
  /\ HandlerMayRun
  /\ \E ray \in Rays :
       IF CooldownActive(now)
       THEN /\ lastEvent' = [ray |-> ray, time |-> now, accepted |-> FALSE, cast |-> FALSE]
            /\ UNCHANGED <<lastTapTime, triggered, ui, rose>>
       ELSE /\ lastEvent' = [ray |-> ray, time |-> now, accepted |-> TRUE, cast |-> TRUE]
            /\ IF intersectObject(rose.colliderMesh, ray) # {}
               THEN lastTapTime' = now /\ onRoseTapped
               ELSE UNCHANGED <<lastTapTime, triggered, ui, rose>>
  /\ UNCHANGED <<bench, config, pc, time, clock, rng, frame, flowerField, fallingHearts,
                 pointerListener, rafPending, frameLog>>

\* onPointerDown(e), for a pointer whose ray crosses the objects of ray
onPointerDown ==
  /\ pointerListener
  /\ HandlerMayRun
  /\ \E ray \in Rays :
       IF CooldownActive(now)
       THEN /\ lastEvent' = [ray |-> ray, time |-> now, accepted |-> FALSE, cast |-> FALSE]
            /\ UNCHANGED <<lastTapTime, triggered, ui, rose>>
       ELSE /\ lastTapTime' = now
            /\ lastEvent' = [ray |-> ray, time |-> now, accepted |-> TRUE, cast |-> TRUE]
            /\ IF intersectObject(rose.colliderMesh, ray) # {}
               THEN onRoseTapped
               ELSE UNCHANGED <<triggered, ui, rose>>
  /\ UNCHANGED <<bench, config, pc, time, clock, rng, frame, flowerField, fallingHearts,
                 pointerListener, rafPending, frameLog>>

\* --------------------------------------- rose surface (the first build)
\* buildRealisticRosePetalsGeometry samples a parametric surface on a grid of
\* nu radial by nv angular divisions
nu == 28
nv == 320

\* the smallest radius a sample may keep: eps = 0.002
eps == 2

\* the values of a JS number that are not finite; every other number of the
\* surface is a fixed-point integer far below them
NaN == 2000000000
Infinity == 1999999999

\* Number.isFinite(x)
IsFinite(x) == x # NaN /\ x # Infinity /\ x # 0 - Infinity

\* a / b in thousandths, for b a count or a positive constant: 0 / 0 is NaN,
\* a / 0 is +-Infinity, and a non-finite a stays what it is
Divide(a, b) ==
  IF ~IsFinite(a) THEN a
  ELSE IF b # 0 THEN (a * Milli) \div b
  ELSE IF a = 0 THEN NaN
  ELSE IF a > 0 THEN Infinity ELSE 0 - Infinity

\* n % m of JS: the remainder takes the sign of the dividend
JsRem(n, m) == IF n >= 0 THEN n % m ELSE 0 - ((0 - n) % m)

\* the signed remainder alone
modSigned(n, m) == IF IsFinite(n) THEN JsRem(n, m) ELSE NaN

\* mod = (n, m) => ((n % m) + m) % m
\* (NaN % m and Infinity % m are NaN)
mod(n, m) == IF IsFinite(n) THEN JsRem(JsRem(n, m) + m, m) ELSE NaN

\* Math.exp(z) for z in [-2, 1], by the series 1 + z (1 + z/2 (1 + z/3 ...))
ExpTerms == 12
RECURSIVE ExpFrom(_, _)
ExpFrom(z, k) ==
  IF k > ExpTerms THEN Milli ELSE Milli + (MulMilli(z, ExpFrom(z, k + 1)) \div k)

Exp(z) == ExpFrom(z, 1)

\* THREE.MathUtils.clamp(value, min, max) = Math.max(min, Math.min(max, value))
clamp(value, min, max) ==
  IF value > max THEN max ELSE IF value < min THEN min ELSE value

\* x = i / (nu - 1)
RadialAt(i) == Divide(i, nu - 1)

\* theta normalised by its own index: 0 / 0 on the first column
ThetaAtSelfNormalised(j) ==
  LET f == Divide(j, j)
  IN  IF IsFinite(f) THEN ((j * 17 * Pi) \div j) - TwoPi ELSE f

\* theta = -TWO_PI + (j / (nv - 1)) * (17 * Math.PI)
ThetaAt(j) ==
  LET f == Divide(j, nv - 1)
  IN  IF IsFinite(f) THEN ((j * 17 * Pi) \div (nv - 1)) - TwoPi ELSE f

\* 3.6 * theta
PhaseDividend(theta) == IF IsFinite(theta) THEN MulMilli(3600, theta) ELSE theta

\* t = mod(3.6 * theta, TWO_PI) / Math.PI
PetalPhase(theta) == Divide(mod(PhaseDividend(theta), TwoPi), Pi)

\* X = clamp(1 - 0.5 * ((5 / 4) * (1 - inner^2) - 0.25)^2, 0.05, 1.35)
ShapeTerm(t) ==
  LET inner == Milli - t
      g == MulMilli(1250, Milli - Square(inner)) - 250
  IN  clamp(Milli - (Square(g) \div 2), 50, 1350)

\* y = 1.95653 * x^2 * (1.27689 * x - 1)^2 * Math.sin(phi)
CurlTerm(x, phi) ==
  MulMilli(MulMilli(MulMilli(1957, Square(x)), Square(MulMilli(1277, x) - Milli)),
           Sin(phi))

\* r and h of a sample from x, phi, X and y
RoseRH(x, phi, X, y) ==
  [r |-> MulMilli(X, MulMilli(x, Sin(phi)) + MulMilli(y, Cos(phi))),
   h |-> MulMilli(X, MulMilli(x, Cos(phi)) - MulMilli(y, Sin(phi)))]

\* the sample before the guard. A non-finite x or theta makes r and h NaN:
\* x is a factor of both terms of each, and theta reaches both through t
\* (Infinity % m is NaN) and phi
RoseRaw(x, theta) ==
  IF ~IsFinite(x) \/ ~IsFinite(theta)
    THEN [t |-> NaN, X |-> NaN, r |-> NaN, h |-> NaN]
    ELSE TheOne({ TheOne({ [t |-> t, X |-> ShapeTerm(t)] @@
                           RoseRH(x, phi, ShapeTerm(t), CurlTerm(x, phi))
                           : t \in {PetalPhase(theta)} })
                  : phi \in {MulMilli(Pi \div 2, Exp(Divide(0 - theta, 8 * Pi)))} })

\* if (!Number.isFinite(r) || !Number.isFinite(h)) { r = eps; h = 0; }
\* else if (r < eps) { r = eps; }
RoseGuard(s) ==
  IF ~IsFinite(s.r) \/ ~IsFinite(s.h) THEN [s EXCEPT !.r = eps, !.h = 0]
  ELSE IF s.r < eps THEN [s EXCEPT !.r = eps]
  ELSE s

\* r *= 0.30; h *= 0.30; px = r sin(theta); py = h + 0.62; pz = r cos(theta)
RosePlace(s, theta) ==
  LET r == MulMilli(s.r, 300)
      h == MulMilli(s.h, 300)
  IN  [px |-> IF IsFinite(theta) THEN MulMilli(r, Sin(theta)) ELSE NaN,
       py |-> h + 620,
       pz |-> IF IsFinite(theta) THEN MulMilli(r, Cos(theta)) ELSE NaN]

\* one grid sample: the raw values, the guarded ones and the emitted vertex
RoseSample(x, theta) ==
  TheOne({ TheOne({ [raw |-> raw, guarded |-> g, out |-> RosePlace(g, theta)]
                    : g \in {RoseGuard(raw)} })
           : raw \in {RoseRaw(x, theta)} })

\* ------------------------------------------- rose stem (the first build)
\* createRealRoseStemMesh: a tube of tubularSegments + 1 rings of
\* radialSegments + 1 vertices each
tubularSegments == 120
radialSegments == 14

\* a vertex of ring i of TubeGeometry(curve, tubularSegments, 1, ...), as its
\* offset from the curve sample of the ring: a vector of length 1 in the
\* plane of the ring's normal and binormal, j / radialSegments of a turn
\* around. Lengths are in millionths, as rBase and rTop are
TubeOffset(j) ==
  [angle |-> (j * TwoPi) \div radialSegments, length |-> Milli * Milli]

\* Vector3.setLength(l): the same direction, length l
setLength(v, l) == [v EXCEPT !.length = l]

\* t = i / tubularSegments; r = THREE.MathUtils.lerp(rBase, rTop, t)
RingRadius(i) == MathUtilsLerp(rBase, rTop, (i * Milli) \div tubularSegments)

\* if (rebuilt.lengthSq() < 1e-8) rebuilt.copy(n).multiplyScalar(r);
\* else rebuilt.setLength(r);   (a length below 0.0001 is 0 here)
RebuildOffset(v, r) ==
  IF v.length < 100 THEN [angle |-> 0, length |-> r] ELSE setLength(v, r)

\* the offset of vertex j of ring i from the curve sample, after the taper
StemVertex(i, j) == RebuildOffset(TubeOffset(j), RingRadius(i))

\* the surface has one vertex per grid sample: positions holds nu * nv * 3
\* numbers, three per vertex
RoseVertexCount == (nu * nv * 3) \div 3

\* the six indices of the quad at (i, j), counting rows and columns from 1
QuadIndicesOneBased(i, j) ==
  LET a == (i + 1) * nv + (j + 1)
      b == (i + 2) * nv + (j + 1)
      c == (i + 2) * nv + (j + 2)
      d == (i + 1) * nv + (j + 2)
  IN  <<a, b, d, b, c, d>>

\* the six indices of the quad at (i, j): two triangles (a, b, d), (b, c, d)
QuadIndices(i, j) ==
  LET a == i * nv + j
      b == (i + 1) * nv + j
      c == (i + 1) * nv + (j + 1)
      d == i * nv + (j + 1)
  IN  <<a, b, d, b, c, d>>

\* indices = new Uint32Array((nu - 1) * (nv - 1) * 6)
IndexBufferLength == (nu - 1) * (nv - 1) * 6

\* k at the start of quad (i, j) with the inner loop run over every column
QuadOffsetFullRows(i, j) == 6 * (i * nv + j)

\* k when the loop reaches quad (i, j): every quad before it, the nv - 1 of
\* each row above and the j before it in its row, has written six indices
QuadOffset(i, j) == 6 * (i * (nv - 1) + j)

\* ------------------------------------------ colours of the archetype
\* the vertex counts of [stem, leaf1, leaf2, ...petals, center]: the two
\* leaves are clones of one geometry, the petals of another
ArchetypeParts(stem, leaf, petal, center) ==
  <<stem, leaf, leaf>> \o [k \in 1 .. PetalDraws |-> petal] \o <<center>>

RECURSIVE SumFrom(_, _)
SumFrom(counts, k) ==
  IF k > Len(counts) THEN 0 ELSE counts[k] + SumFrom(counts, k + 1)

\* mergeGeometries(parts): the merged position attribute holds every part's
\* vertices one after the other
mergeGeometries(counts) == SumFrom(counts, 1)

\* colors = new Float32Array(pos.count * 3)
ColorArrayLength(count) == count * 3

\* new THREE.BufferAttribute(array, itemSize).count
AttributeCount(length, itemSize) == length \div itemSize

\* the slots of colors the loop over the vertices writes
ColorSlotsWritten(count) == {i * 3 + c : i \in 0 .. count - 1, c \in 0 .. 2}

\* ------------------------------------------------- leaves (the first build)
\* createLeafletGeometry: toothDepth = 0.008
toothDepth == 8

\* halfWidth * Math.sin(Math.PI * t), for t = a / b
LeafletHalfWidthAt(width, a, b) == MulMilli(width \div 2, Sin(MulMilli(Divide(a, b), Pi)))

\* leftPoints: the base, then for i = 1 .. numTeeth - 1 the point of the edge
\* at t = i / numTeeth followed by the tooth at tt = (i - 0.5) / numTeeth,
\* then the tip. The loop runs no turn when numTeeth < 2
LeafletLeftPoints(length, width, numTeeth) ==
  LET turns == IF numTeeth >= 2 THEN numTeeth - 1 ELSE 0
      last == 2 * turns + 2
  IN  [k \in 1 .. last |->
        IF k = 1 THEN [x |-> 0, y |-> 0]
        ELSE IF k = last THEN [x |-> 0, y |-> length]
        ELSE IF k % 2 = 0
          THEN [x |-> 0 - LeafletHalfWidthAt(width, k \div 2, numTeeth),
                y |-> MulMilli(Divide(k \div 2, numTeeth), length)]
          ELSE [x |-> 0 - LeafletHalfWidthAt(width, 2 * (k \div 2) - 1, 2 * numTeeth)
                        - toothDepth,
                y |-> MulMilli(Divide(2 * (k \div 2) - 1, 2 * numTeeth), length)]]

\* allPoints = leftPoints.concat(rightPoints.slice(1)): the left edge, then
\* its mirror image from the tip back to the base, the tip taken once
LeafletOutline(left) ==
  [k \in 1 .. 2 * Len(left) - 1 |->
    IF k <= Len(left) THEN left[k]
    ELSE [x |-> 0 - left[2 * Len(left) - k].x, y |-> left[2 * Len(left) - k].y]]

\* curve = Math.sin((y / length) * Math.PI) * x * gain: NaN when y / length is
\* 0 / 0
LeafCurve(x, y, length, gain) ==
  LET q == Divide(y, length)
  IN  IF IsFinite(q) THEN MulMilli(MulMilli(Sin(MulMilli(q, Pi)), x), gain) ELSE NaN

\* createLeafletGeometry(length, width, numTeeth): the geometry it returns,
\* as the vertices of the outline with the z the curvature loop gives them.
\* It has no other way out: no parameter is looked at before the shape is
\* built, and nothing is thrown
createLeafletGeometry(length, width, numTeeth) ==
  LET outline == LeafletOutline(LeafletLeftPoints(length, width, numTeeth))
  IN  [threw |-> FALSE,
       geometry |-> [k \in 1 .. Len(outline) |->
                      [x |-> outline[k].x, y |-> outline[k].y,
                       z |-> LeafCurve(outline[k].x, outline[k].y, length, 1200)]]]

\* |x|
Abs(x) == IF x < 0 THEN 0 - x ELSE x

\* createSmoothLeafGeometry(length, width): the ends of the four curves of the
\* outline, with the z the curvature loop gives them
createSmoothLeafGeometry(length, width) ==
  LET outline == <<[x |-> 0, y |-> 0],
                   [x |-> 0 - (width \div 2), y |-> (2 * length) \div 3],
                   [x |-> 0, y |-> length],
                   [x |-> width \div 2, y |-> (2 * length) \div 3]>>
  IN  [threw |-> FALSE,
       geometry |-> [k \in 1 .. Len(outline) |->
                      [x |-> outline[k].x, y |-> outline[k].y,
                       z |-> LeafCurve(Abs(outline[k].x), outline[k].y, length, 1500)]]]

\* ------------------------------------- anchors on the stem (first build)
\* createRealRoseStemMesh: the control points p0 .. p3 of the stem curve
\* (height = 0.65)
StemControlPoints ==
  <<<<0, 0, 0>>, <<60, 214, 20>>, <<-50, 429, -20>>, <<20, 650, 10>>>>

\* the stem curve after an edit of its shape that moves it as a whole
StemCurve(shift) ==
  [k \in 1 .. 4 |-> [c \in 1 .. 3 |-> StemControlPoints[k][c] + shift[c]]]

\* curve.getPointAt(t): the point of the curve at t, taken on the straight
\* piece between the two control points around t (the Catmull-Rom spline
\* goes through every control point and between them in the same order)
getPointAt(curve, t) ==
  LET pieces == Len(curve) - 1
      k == Min(pieces - 1, (t * pieces) \div Milli)
      local == t * pieces - k * Milli
  IN  [c \in 1 .. 3 |-> lerp(curve[k + 1][c], curve[k + 2][c], local)]

\* thornPos of thorn i: p = curve.getPointAt(t), moved outward by r around
\* the curve
ThornAnchor(curve, i) ==
  [base |-> getPointAt(curve, Thorn(i, 0).t),
   angle |-> Thorn(i, 0).angle,
   r |-> Thorn(i, 0).r]

\* createRose: the basePosition of leaf1, leaf2, leaf3 given to
\* createCompoundLeafGeo
LeafBasePositions == <<<<80, 280, 30>>, <<-75, 380, -25>>, <<20, 450, 80>>>>

\* createCompoundLeafGeo(basePosition, ...): merged.translate(basePosition)
LeafAnchor(curve, k) == LeafBasePositions[k]

\* the anchors of the rose built on a stem curve
RoseAnchors(curve) ==
  [thorns |-> [k \in 1 .. ThornCountHearts |-> ThornAnchor(curve, k - 1)],
   leaves |-> [k \in 1 .. Len(LeafBasePositions) |-> LeafAnchor(curve, k)]]

\* ------------------------------------------------- the wind material
\* the statement of a fragment shader that multiplies the instance colour in,
\* and what applyWindShader of the first build replaces it with
TintLine == "diffuseColor.rgb *= vInstanceColor;"
GatedTintLine ==
  "if (vColor.r > 0.9 && vColor.g > 0.9 && vColor.b > 0.9) { diffuseColor.rgb *= vInstanceColor; }"

\* the fragment shader THREE hands to onBeforeCompile, as its lines: with the
\* colour code still behind its #include, or with the statement spelled out
FragmentTemplates == {<<"#include <color_fragment>">>, <<TintLine>>}

\* String.prototype.replace(target, replacement) on the lines of a source:
\* the first occurrence is replaced, a source without the target is unchanged
Replace(src, target, replacement) ==
  [k \in DOMAIN src |->
    IF src[k] = target /\ (\A j \in 1 .. k - 1 : src[j] # target)
      THEN replacement ELSE src[k]]

\* mat.onBeforeCompile: the fragment shader after it. Only the first build
\* has the replace of the fragment shader
patchFragmentShader(src, b) ==
  IF b = "hearts" THEN Replace(src, TintLine, GatedTintLine) ELSE src

\* vColor.r > 0.9 && vColor.g > 0.9 && vColor.b > 0.9
NearWhite(vColor) == vColor[1] > 900 /\ vColor[2] > 900 /\ vColor[3] > 900

\* the colour of a fragment: the vertex colour, multiplied by the instance
\* colour where the shader says so (behind the gate if it has one, for every
\* fragment otherwise)
FragmentColor(src, vColor, instanceColor) ==
  IF (\E k \in DOMAIN src : src[k] = GatedTintLine) => NearWhite(vColor)
    THEN [c \in 1 .. 3 |-> MulMilli(vColor[c], instanceColor[c])]
    ELSE vColor

\* buildSingleFlowerGeometry: cStem 0x2db86e, cLeaf 0x229955, cPetal
\* 0xffffff, cCenter 0xffd700
VertexColors ==
  [stem |-> <<176, 722, 431>>, leaf |-> <<133, 600, 333>>,
   petal |-> <<1000, 1000, 1000>>, center |-> <<1000, 843, 0>>]

\* createFlowerField: two colours of the palette, 0xff69b4 and 0xdb7093
InstanceTints == {<<1000, 412, 706>>, <<859, 439, 576>>}

\* ------------------------------------- the field for any flowerCount
\* the random source after k calls of rng(), one after the other
RECURSIVE AfterCalls(_, _)
AfterCalls(a, k) ==
  IF k = 0 THEN a ELSE TheOne({ AfterCalls(nx, k - 1) : nx \in {mulberry32(a).state} })

\* the state pass i would start from with the loop run from the last
\* instance to the first
InstanceStartFromEnd(a0, i, n) == Skip(a0, InstanceDraws * (n - i))

\* the state of the random source when pass i of the loop of
\* createFlowerField begins, for flowerCount = n: the i - 1 passes before it
\* have each taken their 15 draws
InstanceStart(a0, i, n) == Skip(a0, InstanceDraws * (i - 1))

\* createFlowerField with CONFIG.flowerCount = n: its instances, and the
\* random source once they are built
FieldOf(a, b, n) ==
  LET a0 == IF b = "hearts" THEN Skip(a, PetalDraws) ELSE a
  IN  [instances |-> [i \in 1 .. n |-> FlowerInstance(InstanceStart(a0, i, n), b)],
       start |-> a0,
       rng |-> InstanceStart(a0, n + 1, n + 1)]

\* ------------------------------------------------ the builders on their own
\* generator states the probes start from: the states the seeds lead to, and
\* the ends and the middle of the 32-bit range
RngWords ==
  {Skip(Word(sd), k) : sd \in Seeds, k \in 0 .. MaxDraws}
    \cup {<<0, 0>>, <<Half - 1, Half - 1>>, <<Half \div 2, 0>>, <<Half \div 2 - 1, Half - 1>>}

\* the (min, max) pairs rand is called with that the probes try
RandRanges == {<<0, Milli>>, <<-2500, 2500>>, <<heartFallSpeedMin, heartFallSpeedMax>>}

\* one call of rng() from state a, then rand(min, max) and the index of
\* pick(arr) on the value it returned
rngProbe ==
  /\ pc = "boot" /\ session = 0 /\ probe = Null
  /\ \E a \in RngWords, range \in RandRanges, n \in {1, 3, PaletteSize} :
       \E out \in {mulberry32(a)} :
         probe' = [kind |-> "rng", a |-> a, next |-> out,
                   min |-> range[1], max |-> range[2],
                   rand |-> rand(out.value, range[1], range[2]),
                   len |-> n, index |-> PickIndex(out.value, n)]
  /\ UNCHANGED <<page, session, entropy, built>>

\* values rng() can return that the probes try: 0, a half, the largest
DrawCorners == {<<0, 0>>, <<Half \div 2, 0>>, <<Half - 1, Half - 1>>}

\* the 15 draws of a field instance the probes try: every corner for the six
\* that place and size it (r, a, the two jitters, h, s), a half for the rest
CornerDraws ==
  {[k \in 1 .. InstanceDraws |-> IF k <= 6 THEN c[k] ELSE <<Half \div 2, 0>>]
     : c \in [1 .. 6 -> DrawCorners]}

\* the 15 draws of the i-th instance (0-based) of the field of this seed
SeededDraws(i) ==
  Draws(Skip(Word(seed), (IF build = "hearts" THEN PetalDraws ELSE 0) + InstanceDraws * i),
        InstanceDraws)

\* one pass of the createFlowerField loop: on the draws of one of the first
\* instances of the seeded field, or on corner values
instanceProbe ==
  /\ pc = "boot" /\ session = 0 /\ probe = Null
  /\ \E d \in CornerDraws \cup {SeededDraws(i) : i \in 0 .. MaxInstance} :
       probe' = [kind |-> "instance", d |-> d, inst |-> FlowerFromDraws(d, build)]
  /\ UNCHANGED <<page, session, entropy, built>>

\* the page is loaded once more: Math.random() starts from a hidden state
pageLoad ==
  /\ pc = "boot" /\ probe = Null
  /\ session = Len(built) /\ session < NumLoads
  /\ session' = session + 1
  /\ entropy' \in 0 .. (NumEntropies - 1)
  /\ UNCHANGED <<page, built, probe>>

\* the builders init() calls, run in the page load: the archetype flower and
\* the field from mulberry32(CONFIG.seed), then the rose
runBuilders ==
  /\ pc = "boot" /\ session = Len(built) + 1
  /\ \E petals \in {buildSingleFlowerGeometry(Word(seed), build)} :
       \E f \in {createFlowerField(Word(seed), build)} :
         built' = Append(built, [entropy |-> entropy,
                                 petals |-> petals,
                                 instances |-> f.field.instances,
                                 thorns |-> addThornsToStem(entropy, build)])
  /\ UNCHANGED <<page, session, entropy, probe>>

\* ---------------------------------------------------------- specification
Next == init \/ Tick \/ animate \/ onPointerDown

Spec == Init /\ [][Next]_vars

\* the (n, m) pairs mod is tried on: every dividend within two moduli of 0
\* on either side for the small moduli, and 3.6 theta over 2 pi for every
\* sampled theta
ModInputs ==
  {<<n, m>> : n \in (0 - 2 * MaxModulus) .. (2 * MaxModulus), m \in 1 .. MaxModulus}
    \cup {<<PhaseDividend(ThetaAt(j)), TwoPi>> : j \in 0 .. nv - 1}

\* one call of mod(n, m), and t as the surface derives it from the result
modProbe ==
  /\ pc = "boot" /\ session = 0 /\ probe = Null
  /\ \E nm \in ModInputs :
       probe' = [kind |-> "mod", n |-> nm[1], m |-> nm[2],
                 mod |-> mod(nm[1], nm[2]),
                 t |-> Divide(mod(nm[1], nm[2]), Pi)]
  /\ UNCHANGED <<page, session, entropy, built>>

\* the radial coordinates the surface is sampled at: the nu of the grid, and
\* two between the axis and the first ring of the grid
Radials == {RadialAt(i) : i \in 0 .. nu - 1} \cup {4, 8}

\* one sample of the rose surface of the first build
roseProbe ==
  /\ pc = "boot" /\ session = 0 /\ probe = Null
  /\ build = "hearts"
  /\ \E x \in Radials, j \in 0 .. nv - 1 :
       \E theta \in {ThetaAt(j)} :
         \E sample \in {RoseSample(x, theta)} :
           probe' = [kind |-> "rose", x |-> x, j |-> j, theta |-> theta,
                     raw |-> sample.raw, guarded |-> sample.guarded,
                     out |-> sample.out]
  /\ UNCHANGED <<page, session, entropy, built>>

\* the index buffer of the rose surface, one quad at a time
indexProbe ==
  /\ pc = "boot" /\ session = 0 /\ probe = Null
  /\ build = "hearts"
  /\ \E i \in 0 .. nu - 2, j \in 0 .. nv - 2 :
       probe' = [kind |-> "quad", i |-> i, j |-> j,
                 indices |-> QuadIndices(i, j),
                 vertexCount |-> RoseVertexCount,
                 offset |-> QuadOffset(i, j),
                 length |-> IndexBufferLength]
  /\ UNCHANGED <<page, session, entropy, built>>

\* one vertex of the tapered stem of the first build, and radiusAt at the
\* two ends of the stem
stemProbe ==
  /\ pc = "boot" /\ session = 0 /\ probe = Null
  /\ build = "hearts"
  /\ \E i \in 0 .. tubularSegments, j \in 0 .. radialSegments :
       probe' = [kind |-> "stem", i |-> i, j |-> j,
                 vertex |-> StemVertex(i, j),
                 radiusAt0 |-> radiusAt(0), radiusAt1 |-> radiusAt(Milli)]
  /\ UNCHANGED <<page, session, entropy, built>>

\* the colour attribute of the archetype flower, for merged parts of the
\* vertex counts a part is tried with (THREE decides them when it
\* triangulates the part)
archetypeProbe ==
  /\ pc = "boot" /\ session = 0 /\ probe = Null
  /\ \E stem \in 3 .. MaxPartVertices, leaf \in 3 .. MaxPartVertices,
        petal \in 3 .. MaxPartVertices, center \in 3 .. MaxPartVertices :
       \E count \in {mergeGeometries(ArchetypeParts(stem, leaf, petal, center))} :
         probe' = [kind |-> "archetype",
                   parts |-> <<stem, leaf, petal, center>>,
                   vertexCount |-> count,
                   colorLength |-> ColorArrayLength(count),
                   colorWritten |-> Cardinality(ColorSlotsWritten(count)),
                   colorCount |-> AttributeCount(ColorArrayLength(count), 3)]
  /\ UNCHANGED <<page, session, entropy, built>>

\* one call of a leaf builder, with the lengths and widths the page uses,
\* and a length of zero
leafProbe ==
  /\ pc = "boot" /\ session = 0 /\ probe = Null
  /\ build = "hearts"
  /\ \E length \in {0, 150, 400}, width \in {70, 180} :
       \/ \E numTeeth \in 0 .. MaxTeeth :
            probe' = [kind |-> "leaflet", length |-> length, width |-> width,
                      numTeeth |-> numTeeth,
                      result |-> createLeafletGeometry(length, width, numTeeth)]
       \/ probe' = [kind |-> "leaf", length |-> length, width |-> width,
                    numTeeth |-> 2,
                    result |-> createSmoothLeafGeometry(length, width)]
  /\ UNCHANGED <<page, session, entropy, built>>

\* the rose of the first build on an edited stem curve (the stem left alone,
\* or moved along x, along z, or both), next to the rose on the curve as
\* shipped
anchorProbe ==
  /\ pc = "boot" /\ session = 0 /\ probe = Null
  /\ build = "hearts"
  /\ \E shift \in {<<dx, 0, dz>> : dx \in {0, MaxShift}, dz \in {0, 0 - MaxShift}} :
       probe' = [kind |-> "anchors", shift |-> shift,
                 shipped |-> RoseAnchors(StemCurve(<<0, 0, 0>>)),
                 edited |-> RoseAnchors(StemCurve(shift))]
  /\ UNCHANGED <<page, session, entropy, built>>

\* one fragment of the flower field under the compiled wind material
shaderProbe ==
  /\ pc = "boot" /\ session = 0 /\ probe = Null
  /\ \E template \in FragmentTemplates, part \in DOMAIN VertexColors,
        tint \in InstanceTints :
       \E src \in {patchFragmentShader(template, build)} :
         probe' = [kind |-> "fragment", template |-> template, shader |-> src,
                   part |-> part, vColor |-> VertexColors[part],
                   instanceColor |-> tint,
                   color |-> FragmentColor(src, VertexColors[part], tint)]
  /\ UNCHANGED <<page, session, entropy, built>>

\* the field built with flowerCount = n and with flowerCount = m > n, from
\* the same seed
fieldProbe ==
  /\ pc = "boot" /\ session = 0 /\ probe = Null
  /\ \E n \in 1 .. MaxFieldSize - 1 :
       \E m \in n + 1 .. MaxFieldSize :
         \E small \in {FieldOf(Word(seed), build, n)}, large \in {FieldOf(Word(seed), build, m)} :
           probe' = [kind |-> "field", n |-> n, m |-> m,
                     small |-> small.instances, large |-> large.instances,
                     rng |-> small.rng,
                     stepped |-> AfterCalls(small.start, InstanceDraws * n)]
  /\ UNCHANGED <<page, session, entropy, built>>

BenchNext ==
  \/ rngProbe \/ instanceProbe \/ pageLoad \/ runBuilders
  \/ modProbe \/ roseProbe \/ indexProbe \/ archetypeProbe
  \/ stemProbe \/ fieldProbe \/ shaderProbe \/ anchorProbe \/ leafProbe

\* the builders and the pure functions of main.js applied one at a time, on
\* the page as it is before init()
BenchSpec == Init /\ [][BenchNext]_vars

\* the build that has the rose pop (the second of main.js), alone
PopBuildInit == Init /\ build = "pop"

\* the frame of that build: it has no hearts to update
PopBuildFrame == animateBegin \/ animateWind \/ animateRoseStep \/ animateRender

PopBuildNext == init \/ Tick \/ PopBuildFrame \/ onPointerDown

\* that build, with frames that keep being delivered and a clock that keeps
\* advancing
LiveSpec == PopBuildInit /\ [][PopBuildNext]_vars /\ WF_vars(PopBuildFrame) /\ SF_vars(Tick)

\* ------------------------------------------------- one heart, for ever
\* how long a frame lasts at least, in ms, when frames keep arriving
FrameDeltaMin == 1000

\* the deltas of the frames: the shortest, and one four times as long
FrameDeltas == {FrameDeltaMin, 4 * FrameDeltaMin}

\* the heart with its x and z put back on the axis: the update reads neither
\* to move it down or to respawn it
OnAxis(e) == [e EXCEPT !.pos = <<0, @[2], 0>>]

\* heart i as createFallingHearts makes it in init(), after the field has
\* taken its draws
fallCreate ==
  /\ pc = "boot" /\ session = 0 /\ probe = Null
  /\ build = "hearts"
  /\ \E i \in 1 .. HeartCount :
       \E made \in {createFallingHearts(createFlowerField(Word(seed), build).rng, build)} :
         probe' = [kind |-> "fall", i |-> i,
                   heart |-> OnAxis(made.hearts.heart[i]), respawns |-> 0]
  /\ UNCHANGED <<page, session, entropy, built>>

\* one pass of update(delta, t) over that heart: it falls for delta, and is
\* respawned once below the ground, at the height and with the velocity that
\* the ends and the middle of the random source's range give
fallFrame ==
  /\ probe # Null /\ probe.kind = "fall"
  /\ \E delta \in FrameDeltas :
       \E m \in {HeartMoved(probe.heart, delta, 0)} :
         IF Grounded(m.pos[2])
         THEN \E vy \in DrawCorners, vv \in DrawCorners :
                \E sp \in {HeartSpawn(<<0, 0>>, <<0, 0>>, vy, vv, build)} :
                  probe' = [probe EXCEPT !.heart = OnAxis(HeartPlaced(m, sp)),
                                         !.respawns = 1 - @]
         ELSE probe' = [probe EXCEPT !.heart = OnAxis(m)]
  /\ UNCHANGED <<page, session, entropy, built>>

FallNext == fallCreate \/ fallFrame

\* a heart of the first build under frames that keep arriving, each at least
\* FrameDeltaMin long
FallSpec == Init /\ [][FallNext]_vars /\ WF_vars(fallFrame)

\* ------------------------------------------------------------- properties
\* a step in which a pointer-down was delivered to the listener
PointerDownStep == lastEvent' # lastEvent

\* the ray of the event crosses the rose's collider
HitsCollider(ev) == "RoseCollider" \in ev.ray

\* the trigger's signals emitted so far: card, chime, pop
Signals == <<ui.cardShown, ui.chimes, ui.pops>>

\* a step that starts (or restarts) the pop animation
PopStarted == rose # Null /\ rose'.popAnim # Null /\ rose'.popAnim # rose.popAnim

\* the pop animation is playing
Playing == rose # Null /\ rose.popAnim # Null

\* C1: once the trigger is TRIGGERED, every later step (a pointer-down that
\* hits the collider beyond the cooldown included) leaves it TRIGGERED and
\* emits no signal: the overlay, the chime and the pop are not called again
C1_TriggerTerminal ==
  [][triggered => (triggered' /\ ui' = ui /\ ~PopStarted)]_vars

\* C1 witness: a second pointer-down on the collider was accepted, a cooldown
\* or more after the one that triggered, and the signals were emitted once
C1_SecondHitAccepted ==
  /\ triggered
  /\ lastEvent.accepted /\ HitsCollider(lastEvent)
  /\ Playing /\ lastEvent.time >= rose.popAnim.start + tapCooldownMs
  /\ Signals = <<1, 1, 1>>

\* C2: once the trigger is TRIGGERED, the card, the chime and the rose pop
\* have each been signalled exactly once (and none before)
C2_AllThreeSignalsOnce ==
  IF triggered THEN Signals = <<1, 1, 1>> ELSE Signals = <<0, 0, 0>>

\* C3: a pointer-down on the collider that follows an accepted pointer-down on
\* the collider by less than tapCooldownMs is not accepted: it returns before
\* the ray cast and changes no trigger, cooldown or rose state
C3_CooldownGating ==
  [][(/\ PointerDownStep
      /\ lastEvent.accepted /\ HitsCollider(lastEvent) /\ HitsCollider(lastEvent')
      /\ lastEvent'.time - lastEvent.time < tapCooldownMs)
     => (/\ ~lastEvent'.accepted /\ ~lastEvent'.cast
         /\ UNCHANGED <<lastTapTime, triggered, ui, rose>>)]_vars

\* C3 witness: a pointer-down on the collider was refused less than a
\* cooldown after the accepted one that triggered
C3_SecondTapRefused ==
  /\ triggered
  /\ HitsCollider(lastEvent) /\ ~lastEvent.accepted /\ ~lastEvent.cast
  /\ lastEvent.time > lastTapTime
  /\ lastEvent.time - lastTapTime < tapCooldownMs

\* C4: a pointer-down whose ray misses the collider changes neither the
\* trigger nor the signals nor the rose, whatever rose part, flower or ground
\* the ray crosses
C4_ColliderOnly ==
  [][(PointerDownStep /\ ~HitsCollider(lastEvent'))
     => UNCHANGED <<triggered, ui, rose>>]_vars

\* C4 witness: an accepted pointer-down crossed petals, leaves, the field and
\* the ground but not the collider, and the trigger is still ARMED
C4_MissAcceptedStillArmed ==
  /\ lastEvent.accepted /\ lastEvent.cast
  /\ ~HitsCollider(lastEvent)
  /\ {"RosePetals", "FlowerField", "Ground"} \subseteq lastEvent.ray
  /\ ~triggered /\ Signals = <<0, 0, 0>>

\* C5 as claimed: every mutation of trigger, cooldown or pop-start state by a
\* pointer-down happens inside a frame callback
C5_MutationInsideFrame ==
  [][(lastTapTime' # lastTapTime \/ triggered' # triggered \/ PopStarted) => InFrame]_vars

\* C5: a pointer-down is handled in its own callback, between two frame
\* callbacks: trigger, cooldown and pop-start state change only in a step that
\* begins and ends outside a frame, and a frame callback changes none of them
C5_MutationBetweenFrames ==
  [][/\ (lastTapTime' # lastTapTime \/ triggered' # triggered \/ Signals' # Signals
           \/ PopStarted \/ PointerDownStep)
        => (pc = "idle" /\ pc' = "idle" /\ ~InFrame)
     /\ InFrame => UNCHANGED <<lastTapTime, triggered, ui, lastEvent>>]_vars

\* C5 witness: the trigger fired in the listener, between two frames, at a
\* time later than the last frame's
C5_TriggeredBetweenFrames ==
  /\ triggered /\ pc = "idle"
  /\ lastTapTime = now /\ lastEvent.time = now
  /\ clock.oldTime < now

\* the steps of a frame in the order claimed: the entities, then the uniforms
ClaimedFrameOrder(b, uniforms) ==
  <<"time", "rose">> \o (IF b = "hearts" THEN <<"hearts">> ELSE <<>>)
    \o (IF uniforms THEN <<"uniforms">> ELSE <<>>) \o <<"render">>

\* the steps of a frame with the uniforms written before the entities
UniformsFirstOrder(b, uniforms) ==
  <<"time">> \o (IF uniforms THEN <<"uniforms">> ELSE <<>>) \o <<"rose">>
    \o (IF b = "hearts" THEN <<"hearts">> ELSE <<>>) \o <<"render">>

\* s is an initial part of t
IsPrefix(s, t) == Len(s) <= Len(t) /\ \A i \in 1 .. Len(s) : s[i] = t[i]

\* the frame's log follows the order: all of it once the frame is over
FollowsOrder(order) ==
  /\ IsPrefix(frameLog, order)
  /\ (pc = "idle" => frameLog = order)

\* C6 as claimed: elapsed time, then rose and hearts, then the uniforms, then
\* the render, in every frame
C6_EntitiesBeforeUniforms ==
  frameLog # <<>> => \E uniforms \in BOOLEAN : FollowsOrder(ClaimedFrameOrder(build, uniforms))

\* C6: in every frame the steps run in this order: elapsed time, then the wind
\* uniform (once the shader exists), then the rose, then the hearts, then the
\* render, which is last
C6_UniformsBeforeEntities ==
  frameLog # <<>> => \E uniforms \in BOOLEAN : FollowsOrder(UniformsFirstOrder(build, uniforms))

\* C6 witness: a whole frame of the hearts build that wrote the uniform
C6_FullFrameDone ==
  /\ pc = "idle" /\ build = "hearts"
  /\ frameLog = <<"time", "uniforms", "rose", "hearts", "render">>

\* C7: without the rendering capability, init shows the fallback and nothing
\* else ever happens: no clock, field, rose or hearts, no draw from the
\* generator, no pointer listener, no frame, and the trigger stays ARMED
C7_FallbackSkipsCore ==
  ~webgl =>
    /\ pc \in {"boot", "fallback"}
    /\ (pc = "fallback" <=> ui.fallbackShown = 1)
    /\ clock = Null /\ flowerField = Null /\ rose = Null /\ fallingHearts = Null
    /\ rng = Word(seed)
    /\ ~pointerListener /\ ~rafPending /\ frameLog = <<>>
    /\ ~triggered /\ lastTapTime = NegInfinity
    /\ ui.hintHidden = 0 /\ Signals = <<0, 0, 0>>

\* C7 witness: the fallback was shown and the session ran to its end
C7_FallbackShown ==
  ~webgl /\ pc = "fallback" /\ ui.fallbackShown = 1 /\ ticks = MaxTicks

\* C8: a playing pop is cleared by the rose step of the first frame that runs
\* PopDurationMs or more after its start, and by no other step; a pop starts
\* only in the pointer-down that triggers; and, frames and time going on, a
\* playing pop is eventually cleared
C8_PopSelfTerminating ==
  /\ [][/\ (Playing /\ pc = "rose")
             => (rose'.popAnim = Null <=> now - rose.popAnim.start >= PopDurationMs)
        /\ (Playing /\ rose'.popAnim # rose.popAnim)
             => (pc = "rose" /\ rose'.popAnim = Null)
        /\ PopStarted => (PointerDownStep /\ ~triggered /\ triggered')]_vars
  /\ (Playing ~> ~Playing)

\* C8 witness: the pop was started once, has played and is cleared
C8_PopPlayedAndCleared ==
  /\ build = "pop" /\ triggered /\ ui.pops = 1
  /\ rose.popAnim = Null
  /\ now - lastTapTime >= PopDurationMs

\* the heart's position and velocity are those of a fresh spawn
FreshSpawn(e) ==
  /\ e.pos[2] >= heartStartYMin /\ e.pos[2] < heartStartYMax
  /\ e.spawnRadius >= 0 /\ e.spawnRadius < (fieldRadius(build) * 12) \div 10
  /\ e.pos[1] \in -e.spawnRadius .. e.spawnRadius
  /\ e.pos[3] \in -e.spawnRadius .. e.spawnRadius
  /\ e.velocity \in heartFallSpeedMax .. heartFallSpeedMin

\* C9: after every update of the hearts, every heart has y >= 0, and a heart
\* the update found below the ground was respawned in it: y in
\* [heartStartYMin, heartStartYMax), radius in [0, 1.2 fieldRadius), and a
\* velocity drawn anew
C9_HeartsAboveGround ==
  fallingHearts # Null =>
    \A i \in 1 .. HeartCount :
      /\ fallingHearts.heart[i].pos[2] >= 0
      /\ fallingHearts.heart[i].matrix.p = fallingHearts.heart[i].pos
      /\ i \in fallingHearts.respawned => FreshSpawn(fallingHearts.heart[i])

\* C9 witness: the last update respawned a heart that had fallen through
C9_HeartRespawned ==
  /\ fallingHearts # Null /\ pc = "render"
  /\ fallingHearts.respawned # {}
  /\ frame.delta > 0

\* C10: once the field is built, no step changes an instance's matrix, color,
\* aSway or aPhase; a pointer-down changes nothing of the field; a frame
\* changes at most the uTime uniform (and compiles the shader, once)
C10_FieldStatic ==
  [][flowerField # Null =>
       /\ flowerField'.instances = flowerField.instances
       /\ PointerDownStep => flowerField' = flowerField
       /\ flowerField' # flowerField
            => (/\ pc \in {"wind", "render"}
                /\ flowerField.shader => (flowerField'.shader /\ pc = "wind"))]_vars

\* C10 witness: frames have advanced the wind uniform and a pointer-down has
\* triggered, over the field as it was built
C10_WindAdvanced ==
  /\ flowerField # Null /\ flowerField.shader /\ flowerField.uTime > 0
  /\ triggered /\ lastEvent.accepted
  /\ flowerField.instances = createFlowerField(Word(seed), build).field.instances

\* the 32-bit word a plus 0x6D2B79F5, modulo 2^32, half by half
PlusIncrement(a) ==
  <<(a[1] + MulberryIncHi + ((a[2] + MulberryIncLo) \div Half)) % Half,
    (a[2] + MulberryIncLo) % Half>>

\* C13: a call of the random source moves its 32-bit state by 0x6D2B79F5
\* modulo 2^32 and returns v with 0 <= v < 1, the same for the same state;
\* rand(min, max) is min + v (max - min), between min and max; the index of
\* pick is floor(v len), at least 0 and below len
C13_RandomSourcePure ==
  (probe # Null /\ probe.kind = "rng") =>
    /\ probe.next.state = PlusIncrement(probe.a)
    /\ probe.next.value \in (0 .. Half - 1) \X (0 .. Half - 1)
    /\ probe.next.value = MulberryValue(PlusIncrement(probe.a))
    /\ probe.rand = probe.min + Scale(probe.next.value, probe.max - probe.min)
    /\ IF probe.min < probe.max
       THEN probe.rand >= probe.min /\ probe.rand < probe.max
       ELSE probe.rand <= probe.min /\ probe.rand >= probe.max
    /\ probe.index \in 0 .. (probe.len - 1)
    /\ probe.index * Half <= probe.next.value[1] * probe.len
                               + ((probe.next.value[2] * probe.len) \div Half)
    /\ (probe.index + 1) * Half > probe.next.value[1] * probe.len
                                    + ((probe.next.value[2] * probe.len) \div Half)

\* C13 witness: the state wrapped around 2^32 and pick took the last entry
\* of a palette-long array
C13_WrappedAndPickedLast ==
  /\ probe # Null /\ probe.kind = "rng"
  /\ probe.next.state[1] < probe.a[1]
  /\ probe.len = PaletteSize /\ probe.index = PaletteSize - 1

\* C11: two page loads with the same seed build the same field: the same
\* petal angles of the archetype and, instance by instance, the same matrix
\* and the same color (and sway and phase)
C11_FieldDeterministic ==
  \A s1, s2 \in DOMAIN built :
    /\ built[s1].petals = built[s2].petals
    /\ built[s1].instances = built[s2].instances

\* C11 witness: the field was built in two page loads whose Math.random()
\* differed, from draws that are not all alike
C11_TwoLoadsBuilt ==
  /\ Len(built) = NumLoads
  /\ built[1].entropy # built[NumLoads].entropy
  /\ built[1].instances[1] # built[1].instances[FlowerCount]

\* C12: two page loads with the same seed build the same rose, thorn by
\* thorn: the same place on the stem and the same orientation
C12_RoseDeterministic ==
  \A s1, s2 \in DOMAIN built : built[s1].thorns = built[s2].thorns

\* the square of the distance of the instance from the origin, in hundredths
DistanceSq(inst) ==
  (inst.matrix.p[1] \div 10) * (inst.matrix.p[1] \div 10)
    + (inst.matrix.p[3] \div 10) * (inst.matrix.p[3] \div 10)

\* C14: the position of every field instance lies at a distance from the
\* origin within [clearRadius, fieldRadius + 2.5]
C14_RadiusWithinBounds ==
  (probe # Null /\ probe.kind = "instance") =>
    /\ DistanceSq(probe.inst) >= (clearRadius \div 10) * (clearRadius \div 10)
    /\ DistanceSq(probe.inst) <= ((fieldRadius(build) + 2500) \div 10)
                                   * ((fieldRadius(build) + 2500) \div 10)

\* C15: every field instance has the same horizontal scale s on x and z, with
\* s in [0.65, 1.4], and the vertical scale s h with h in [0.6, 1.6]
C15_ScaleWithinBounds ==
  (probe # Null /\ probe.kind = "instance") =>
    /\ probe.inst.matrix.s[1] \in 650 .. 1400
    /\ probe.inst.matrix.s[3] = probe.inst.matrix.s[1]
    /\ probe.inst.matrix.s[2] >= MulMilli(probe.inst.matrix.s[1], 600)
    /\ probe.inst.matrix.s[2] <= MulMilli(probe.inst.matrix.s[1], 1600)

\* C15 witness: an instance of the largest girth and the smallest height
C15_WideAndShort ==
  /\ probe # Null /\ probe.kind = "instance"
  /\ probe.inst.matrix.s[1] >= 1399
  /\ probe.inst.matrix.s[2] = MulMilli(probe.inst.matrix.s[1], 600)

\* C18: mod(n, m) is in [0, m) and congruent to n modulo m for every n,
\* negative included, and every m > 0; so t = mod(3.6 theta, 2 pi) / pi is in
\* [0, 2) for every sampled theta
C18_PositiveModulo ==
  (probe # Null /\ probe.kind = "mod") =>
    /\ probe.mod >= 0 /\ probe.mod < probe.m
    /\ (probe.mod - probe.n) % probe.m = 0
    /\ (probe.m = TwoPi => probe.t >= 0 /\ probe.t < 2 * Milli)

\* C18 witness: mod applied to 3.6 theta for a negative sampled theta
C18_NegativeThetaWrapped ==
  /\ probe # Null /\ probe.kind = "mod"
  /\ probe.m = TwoPi /\ probe.n < 0
  /\ probe.mod = probe.n + 4 * TwoPi

\* C16: every sample of the rose surface, for every radial coordinate in
\* [0, 1] and every theta of the sampled range from -2 pi to 15 pi, is
\* emitted with finite x, y and z
C16_FiniteCoordinates ==
  (probe # Null /\ probe.kind = "rose") =>
    /\ IsFinite(probe.out.px)
    /\ IsFinite(probe.out.py)
    /\ IsFinite(probe.out.pz)

\* C16 witness: a sample of the outer rim at a negative theta is emitted
C16_NegativeThetaEmitted ==
  /\ probe # Null /\ probe.kind = "rose"
  /\ probe.theta < 0 /\ probe.x = Milli
  /\ IsFinite(probe.out.px) /\ probe.out.px # 0

C19_IndicesAndColorsInRange ==
  /\ (probe # Null /\ probe.kind = "quad") =>
       /\ probe.vertexCount = nu * nv
       /\ \A k \in 1 .. Len(probe.indices) :
            probe.indices[k] >= 0 /\ probe.indices[k] < probe.vertexCount
  /\ (probe # Null /\ probe.kind = "archetype") =>
       /\ probe.colorCount = probe.vertexCount
       /\ probe.colorWritten = probe.colorLength

\* C19 witness: the last quad of the surface, whose corner c is the last
\* vertex
C19_LastQuadIndexed ==
  /\ probe # Null /\ probe.kind = "quad"
  /\ probe.i = nu - 2 /\ probe.j = nv - 2
  /\ probe.indices[5] = probe.vertexCount - 1

\* what one thousandth of t changes the radius by: t is kept to thousandths
TaperResolution == (rBase - rTop) \div Milli

\* C20: radiusAt returns exactly the base radius at t = 0 and exactly the tip
\* radius at t = 1, and every vertex of ring i lies at distance
\* lerp(base, tip, i / segments) from the curve sample of its ring
C20_TaperCorrect ==
  (probe # Null /\ probe.kind = "stem") =>
    /\ probe.radiusAt0 = rBase
    /\ probe.radiusAt1 = rTop
    /\ LET exact == (rBase * (tubularSegments - probe.i) + rTop * probe.i)
                      \div tubularSegments
       IN  /\ probe.vertex.length >= exact
           /\ probe.vertex.length <= exact + TaperResolution
    /\ (probe.i = 0 => probe.vertex.length = rBase)
    /\ (probe.i = tubularSegments => probe.vertex.length = rTop)

\* C20 witness: a vertex of the middle ring, placed halfway between the two
\* radii
C20_MiddleRingPlaced ==
  /\ probe # Null /\ probe.kind = "stem"
  /\ probe.i = tubularSegments \div 2 /\ probe.j > 0
  /\ probe.vertex.length = (rBase + rTop) \div 2

\* C21: a leaf builder given a zero length or fewer than 2 teeth fails with
\* an error and returns no geometry
C21_DegenerateFailsFast ==
  (probe # Null /\ probe.kind \in {"leaflet", "leaf"}) =>
    ((probe.length = 0 \/ probe.numTeeth < 2) =>
       (probe.result.threw /\ probe.result.geometry = <<>>))

\* a point moved by a vector
Moved(point, shift) == [c \in 1 .. 3 |-> point[c] + shift[c]]

\* C22: every thorn anchor and every compound-leaf anchor is computed from
\* the stem curve, so building on a moved curve moves each of them with it
C22_AnchorsFollowCurve ==
  (probe # Null /\ probe.kind = "anchors") =>
    /\ \A k \in 1 .. ThornCountHearts :
         /\ probe.edited.thorns[k].base = Moved(probe.shipped.thorns[k].base, probe.shift)
         /\ probe.edited.thorns[k].r = probe.shipped.thorns[k].r
    /\ \A k \in 1 .. Len(LeafBasePositions) :
         probe.edited.leaves[k] = Moved(probe.shipped.leaves[k], probe.shift)

\* C23: the instance colour multiplies a fragment only when its vertex colour
\* is near-white; stem, leaf and center fragments keep their vertex colour
C23_TintOnlyNearWhite ==
  (probe # Null /\ probe.kind = "fragment") =>
    (~NearWhite(probe.vColor) => probe.color = probe.vColor)

\* C24: an accepted pointer-down comes at least tapCooldownMs after the
\* accepted one before it, lastTapTime never decreases and only an accepted
\* pointer-down changes it, and a pointer-down delivered while no pointer-down
\* has been accepted yet (the first of the session is one) is accepted
C24_AcceptedTapsSpaced ==
  [][/\ (PointerDownStep /\ lastEvent'.accepted)
          => /\ lastEvent'.time - lastTapTime >= tapCooldownMs
             /\ lastTapTime' = lastEvent'.time
     /\ lastTapTime' >= lastTapTime
     /\ (lastTapTime' # lastTapTime) => (PointerDownStep /\ lastEvent'.accepted)
     /\ (PointerDownStep /\ lastTapTime = NegInfinity) => lastEvent'.accepted]_vars

\* C24 witness: a pointer-down accepted exactly tapCooldownMs after the
\* accepted one that started the pop
C24_SecondTapAtCooldown ==
  /\ triggered /\ rose # Null /\ rose.popAnim # Null
  /\ lastEvent.accepted /\ lastEvent.time = lastTapTime
  /\ lastTapTime - rose.popAnim.start = tapCooldownMs

\* C25: a pointer-down that passes the cooldown gate restarts the cooldown
\* whether or not its ray hits the collider and whether or not the trigger
\* has fired; so a pointer-down on the collider less than tapCooldownMs after
\* an accepted miss is ignored and does not trigger
C25_MissRestartsCooldown ==
  [][/\ (PointerDownStep /\ lastEvent'.accepted) => lastTapTime' = now
     /\ (/\ PointerDownStep
         /\ lastEvent.accepted /\ ~HitsCollider(lastEvent) /\ HitsCollider(lastEvent')
         /\ lastEvent'.time - lastEvent.time < tapCooldownMs)
        => (/\ ~lastEvent'.accepted
            /\ UNCHANGED <<lastTapTime, triggered, ui, rose>>)]_vars

\* C25 witness: the trigger has not fired, and a pointer-down on the collider
\* was refused less than a cooldown after an accepted miss
C25_HitAfterMissIgnored ==
  /\ ~triggered
  /\ lastTapTime # NegInfinity
  /\ HitsCollider(lastEvent) /\ ~lastEvent.accepted
  /\ lastEvent.time > lastTapTime
  /\ lastEvent.time - lastTapTime < tapCooldownMs

\* the scale of the rose multiplied by a factor in thousandths
Scaled(sc, k) == <<MulMilli(sc[1], k), MulMilli(sc[2], k), MulMilli(sc[3], k)>>

\* C26: every call of animateRose sets the scale of the rose to baseScale
\* times the breathing factors of that frame times the pop factor k, whatever
\* the scale was before: k is 1 when no pop plays and at the last frame of a
\* pop (u = 1), which leaves the breathing-only scale and clears the pop
C26_ScaleRecomputed ==
  [][(pc = "rose" /\ pc' # "rose" /\ rose # Null) =>
       LET breathing == BreathScale(rose, frame.t)
       IN  IF rose.popAnim = Null
           THEN rose'.scale = breathing /\ rose'.popAnim = Null
           ELSE LET u == PopProgress(rose.popAnim, now)
                IN  /\ rose'.scale = Scaled(breathing, PopFactor(u))
                    /\ (u = Milli) => (rose'.scale = breathing /\ rose'.popAnim = Null)
                    /\ (u < Milli) => rose'.popAnim = rose.popAnim]_vars

\* C26 witness: a frame drawn after the end of a pop has cleared it, and its
\* rose step left the rose at the breathing-only scale of the frame
C26_BreathingOnlyAfterPop ==
  /\ build = "pop" /\ triggered /\ rose # Null /\ rose.popAnim = Null
  /\ Len(frameLog) > 0 /\ frameLog[Len(frameLog)] = "rose"
  /\ now - lastTapTime >= PopDurationMs
  /\ rose.scale = BreathScale(rose, frame.t)

\* C27: the per-frame update changes only the position of a heart: the
\* orientation and scale in heart i's instance matrix are, after any update,
\* the ones heart i was given at creation
C27_HeartKeepsOrientationAndScale ==
  fallingHearts # Null =>
    \A i \in 1 .. HeartCount :
      /\ fallingHearts.heart[i].matrix.q = fallingHearts.created[i].q
      /\ fallingHearts.heart[i].matrix.s = fallingHearts.created[i].s

\* a heart is falling
Falling == probe # Null /\ probe.kind = "fall"

\* C28: the fall velocity of a heart is always strictly negative and within
\* [heartFallSpeedMax, heartFallSpeedMin], at creation and after every
\* respawn; its y never exceeds heartStartYMax; and under frames that keep
\* arriving with a delta of at least FrameDeltaMin it is respawned again and
\* again
C28_HeartsKeepFalling ==
  /\ [](Falling =>
          /\ probe.heart.velocity < 0
          /\ probe.heart.velocity >= heartFallSpeedMax
          /\ probe.heart.velocity <= heartFallSpeedMin
          /\ probe.heart.pos[2] <= heartStartYMax)
  /\ ((Falling /\ probe.respawns = 0) ~> (Falling /\ probe.respawns = 1))
  /\ ((Falling /\ probe.respawns = 1) ~> (Falling /\ probe.respawns = 0))

\* C28 witness: a heart that was respawned has fallen below the heights it
\* can respawn at
C28_RespawnedAndFalling ==
  /\ Falling /\ probe.respawns = 1
  /\ probe.heart.pos[2] < heartStartYMin
  /\ probe.heart.pos[2] >= 0

\* C29: an instance takes exactly 15 draws, so instance i depends only on the
\* seed and i: the field built with flowerCount = N and the one built with
\* flowerCount = M > N have the same first N instances, and after N
\* instances the random source stands 15 N calls from where the loop began
C29_FieldPrefixStable ==
  (probe # Null /\ probe.kind = "field") =>
    /\ \A i \in 1 .. probe.n : probe.large[i] = probe.small[i]
    /\ probe.rng = probe.stepped

\* C29 witness: fields of 2 and of 3 instances from the same seed, with
\* three different instances in the larger
C29_TwoOfThree ==
  /\ probe # Null /\ probe.kind = "field"
  /\ probe.n = 2 /\ probe.m = 3
  /\ probe.large[2] = probe.small[2]
  /\ probe.large[3] # probe.large[2] /\ probe.large[2] # probe.large[1]

\* C30: the grid is a regular (nu - 1) x (nv - 1) quad mesh with two
\* triangles per quad on shared vertices: quad (i, j) writes the triangles
\* (a, b, d) and (b, c, d), a = i nv + j, b = (i + 1) nv + j,
\* c = (i + 1) nv + j + 1, d = i nv + j + 1, into six slots of its own of the
\* index buffer, and the quads together fill its 6 (nu - 1) (nv - 1) slots
C30_RegularQuadMesh ==
  (probe # Null /\ probe.kind = "quad") =>
    LET a == probe.i * nv + probe.j
        b == (probe.i + 1) * nv + probe.j
        c == (probe.i + 1) * nv + probe.j + 1
        d == probe.i * nv + probe.j + 1
        quadsBefore == probe.i * (nv - 1) + probe.j
    IN  /\ probe.indices = <<a, b, d, b, c, d>>
        /\ probe.length = 6 * (nu - 1) * (nv - 1)
        /\ probe.offset = 6 * quadsBefore
        /\ probe.offset >= 0 /\ probe.offset + 6 <= probe.length
        /\ (probe.i = nu - 2 /\ probe.j = nv - 2) => probe.offset + 6 = probe.length

\* C30 witness: the six indices of the last quad fill the index buffer to
\* its end
C30_BufferFilled ==
  /\ probe # Null /\ probe.kind = "quad"
  /\ probe.offset + Len(probe.indices) = probe.length
====
